---- MODULE Spec2Model ----
(***************************************************************************)
(* Contribution lifecycle and payment reconciliation of the bakgomong web  *)
(* application: the fan-out of member obligations when a ContributionType  *)
(* is created (contributions/signals.py), the Payment / MemberContribution *)
(* status machine (contributions/models.py), and the request handlers that *)
(* drive it (contributions/views/checkout.py, views/payment.py, admin.py). *)
(*                                                                         *)
(* Rows are records keyed by small integers (the UUID primary keys).       *)
(* Decimal amounts are positive integers; dates are day numbers.          *)
(***************************************************************************)
EXTENDS Integers, Sequences, FiniteSets, TLC

\* ------------------------------------------------------------------ bounds
NumFanoutAccounts == 2
MaxCT == 1
MaxDay == 1
MaxAmount == 2
MaxPayments == 1
MaxJobs == 1
MaxSessions == 2
MaxLedgerPayments == 2
NumDispatches == 2
MaxRefs == 2

\* ---------------------------------------------------- program constants
\* calculate_due_date: once-off contributions fall due a week from today
OnceOffDays == 7
\* relativedelta(months=1) and relativedelta(years=1), as day counts
MonthDays == 30
YearDays == 365
\* DecimalField(decimal_places=2): an amount prints with two decimals
MinorUnits == 100

NoFamily == "NoFamily"
NoDate == -1
Families == {"F1", "F2"}
Amounts == 1..MaxAmount

\* utilities/choices.py
PAID == "PAID"
MC_PENDING == "PENDING"
AWAITING_APPROVAL == "AWAITING APPROVAL"
NOT_PAID == "NOT_PAID"
CANCELLED == "CANCELLED"
PARTIALLY_PAID == "PARTIALLY_PAID"
PaymentStatus == {PAID, MC_PENDING, AWAITING_APPROVAL, NOT_PAID, CANCELLED, PARTIALLY_PAID}

LP_NOT_PAID == "NOT PAID"
LP_PENDING == "PENDING"
APPROVED == "APPROVED"
REJECTED == "REJECTED"
LogPaymentStatus == {LP_NOT_PAID, LP_PENDING, APPROVED, REJECTED}

Role == {"KGOSANA", "CLAN_CHAIRPERSON", "MEMBER", "DEP_CHAIRPERSON",
         "SECRETARY", "DEP_SECRETARY", "TREASURER"}
MemberClassification == {"RELATIVE", "CHILD", "PARENT", "GRANDPARENT", "OTHER"}
SCOPE_CHOICES == {"clan", "family_leaders", "family", "executives"}
Recurrence == {"once_off", "monthly", "annual"}

VARIABLES
    accounts,   \* Account rows: id -> flags the fan-out and the views read
    cts,        \* ContributionType rows: id -> record
    mcs,        \* MemberContribution rows: id -> record
    payments,   \* Payment rows: id -> record
    today,      \* timezone.now().date()
    secret,     \* settings.YOCO_SECRET_KEY
    jobs,       \* django-q queue: the obligations of the queued email jobs
    admin,      \* per admin user: the Payment objects an approve action loaded
    fanouts,    \* per dispatch of post_save: what the handler has read so far
    last        \* the request handled last, with what it did and answered

vars == <<accounts, cts, mcs, payments, today, secret, jobs, admin, fanouts, last>>

YOCO_SECRET_KEY == "sk_test"

\* The next free primary key of a table.
NextId(table) == Cardinality(DOMAIN table) + 1

\* ----------------------------------------------------------------- fan-out

\* signals.py calculate_due_date
calculate_due_date(recurrence, now) ==
    IF recurrence = "monthly" THEN now + MonthDays
    ELSE IF recurrence = "annual" THEN now + YearDays
    ELSE IF recurrence = "once_off" THEN now + OnceOffDays
    ELSE now

ExecutiveRoles == {"CLAN_CHAIRPERSON", "DEP_CHAIRPERSON", "DEP_SECRETARY",
                   "KGOSANA", "SECRETARY", "TREASURER"}

\* signals.py: members_qs, the target members of a ContributionType by scope
members_qs(ct) ==
    IF ct.scope = "clan" THEN
        {a \in DOMAIN accounts : accounts[a].is_active /\ accounts[a].is_approved}
    ELSE IF ct.scope = "family" /\ ct.family # NoFamily THEN
        {a \in DOMAIN accounts : accounts[a].is_active /\ accounts[a].is_approved
                                 /\ accounts[a].family = ct.family}
    ELSE IF ct.scope = "family_leaders" THEN
        {a \in DOMAIN accounts : accounts[a].is_active /\ accounts[a].is_approved
                                 /\ accounts[a].is_family_leader}
    ELSE IF ct.scope = "executives" THEN
        {a \in DOMAIN accounts : accounts[a].is_active /\ accounts[a].is_approved
                                 /\ accounts[a].is_family_leader
                                 /\ accounts[a].role \in ExecutiveRoles}
    ELSE {}

\* signals.py: existing_count > 0, the guard against a second fan-out
NoGuard(rows, c) == FALSE
ContributionsExist(rows, c) == \E m \in DOMAIN rows : rows[m].contribution_type = c

\* MemberContribution.Meta.unique_together
UniqueTogetherViolated(rows, new) ==
    \E m \in DOMAIN rows : /\ rows[m].account = new.account
                           /\ rows[m].contribution_type = new.contribution_type
                           /\ rows[m].due_date = new.due_date

\* The accounts of a set in primary-key order, as the queryset yields them.
RECURSIVE InOrder(_)
InOrder(S) == IF S = {} THEN <<>>
              ELSE LET a == CHOOSE x \in S : \A y \in S : x <= y
                   IN <<a>> \o InOrder(S \ {a})

\* signals.py: contributions_to_create, one row per member of members_qs
contributions_to_create(rows, c, inst, members, due) ==
    LET order == InOrder(members)
        base  == NextId(rows) - 1
    IN [i \in (base + 1)..(base + Len(order)) |->
            [account |-> order[i - base], contribution_type |-> c,
             amount_due |-> inst.amount, reference |-> i,
             due_date |-> due, is_paid |-> NOT_PAID]]

\* The places of the handler's try block where an exception can come from:
\* the eligibility query (members_qs.count()), the duplicate check
\* (existing_count), bulk_create and async_task.
Faults == {"none", "members_qs", "existing_count", "bulk_create", "async_task"}

\* signals.py create_member_contributions(instance, created) on the table
\* rows: the table after the handler, and whether the handler raised.
\* bulk_create inserts its batches in one transaction, so an exception of the
\* insert leaves no row; the rows are committed when async_task is called.
create_member_contributions(rows, c, inst, created, now, fault) ==
    LET members  == members_qs(inst)
        due      == IF inst.due_date # NoDate THEN inst.due_date
                    ELSE calculate_due_date(inst.recurrence, now)
        new      == contributions_to_create(rows, c, inst, members, due)
        inserted == [m \in DOMAIN rows \cup DOMAIN new |->
                          IF m \in DOMAIN rows THEN rows[m] ELSE new[m]]
    IN  IF ~created THEN [rows |-> rows, raised |-> FALSE]
        ELSE IF fault = "members_qs" THEN [rows |-> rows, raised |-> TRUE]
        ELSE IF members = {} THEN [rows |-> rows, raised |-> FALSE]
        ELSE IF fault = "existing_count" THEN [rows |-> rows, raised |-> TRUE]
        ELSE IF ContributionsExist(rows, c) THEN [rows |-> rows, raised |-> FALSE]
        ELSE IF fault = "bulk_create" \/ \E i \in DOMAIN new : UniqueTogetherViolated(rows, new[i])
             THEN [rows |-> rows, raised |-> TRUE]
        ELSE IF fault = "async_task" THEN [rows |-> inserted, raised |-> TRUE]
        ELSE [rows |-> inserted, raised |-> FALSE]

\* views/contributions.py is_treasurer_or_admin
is_treasurer_or_admin(u) ==
    accounts[u].is_staff \/ accounts[u].role \in {"TREASURER", "CLAN_CHAIRPERSON"}

\* ContributionType.clean: a family goes with the family scope and no other
ContributionTypeClean(scope, family) ==
    /\ ~(scope = "family" /\ family = NoFamily)
    /\ ~(scope # "family" /\ family # NoFamily)

\* views/contributions.py add_contribution (POST): the row is saved, then the
\* post_save signal runs the fan-out with created=True; an exception of the
\* signal is caught by the view after the ContributionType row was written.
add_contribution(u, scope, family, amount, recurrence, due, fault) ==
    /\ NextId(cts) <= MaxCT
    /\ IF ~is_treasurer_or_admin(u) THEN
            /\ last' = [op |-> "add_contribution", ct |-> 0, res |-> "denied"]
            /\ UNCHANGED <<cts, mcs>>
       ELSE IF ~ContributionTypeClean(scope, family) THEN
            /\ last' = [op |-> "add_contribution", ct |-> 0, res |-> "invalid"]
            /\ UNCHANGED <<cts, mcs>>
       ELSE LET c    == NextId(cts)
                inst == [scope |-> scope, family |-> family, amount |-> amount,
                         recurrence |-> recurrence, due_date |-> due,
                         is_active |-> TRUE]
                out  == create_member_contributions(mcs, c, inst, TRUE, today, fault)
            IN /\ cts' = [x \in DOMAIN cts \cup {c} |-> IF x = c THEN inst ELSE cts[x]]
               /\ mcs' = out.rows
               /\ last' = [op |-> "add_contribution", ct |-> c,
                           res |-> IF out.raised THEN "error" ELSE "ok", fault |-> fault]
    /\ UNCHANGED <<accounts, payments, today, secret, jobs, admin, fanouts>>

\* views/contributions.py update_contribution (POST): form.save() writes the
\* row and post_save runs the handler with created=False.
update_contribution(u, c, amount) ==
    /\ c \in DOMAIN cts
    /\ IF ~is_treasurer_or_admin(u) THEN
            /\ last' = [op |-> "update_contribution", ct |-> c, res |-> "denied"]
            /\ UNCHANGED <<cts, mcs>>
       ELSE LET inst == [cts[c] EXCEPT !.amount = amount]
                out  == create_member_contributions(mcs, c, inst, FALSE, today, "none")
            IN /\ cts' = [cts EXCEPT ![c] = inst]
               /\ mcs' = out.rows
               /\ last' = [op |-> "update_contribution", ct |-> c, res |-> "ok"]
    /\ UNCHANGED <<accounts, payments, today, secret, jobs, admin, fanouts>>

\* The post_save handler dispatched once more for a saved ContributionType
\* with created=True ("in case signal is triggered multiple times").
post_save_again(c, fault) ==
    /\ c \in DOMAIN cts
    /\ LET out == create_member_contributions(mcs, c, cts[c], TRUE, today, fault)
       IN /\ mcs' = out.rows
          /\ last' = [op |-> "create_member_contributions", ct |-> c,
                      res |-> IF out.raised THEN "error" ELSE "ok", fault |-> fault]
    /\ UNCHANGED <<accounts, cts, payments, today, secret, jobs, admin, fanouts>>

\* A dispatch of post_save that has not read anything yet.
NotDispatched == [ct |-> 0]

\* utils/notifications.py generate_reference: "#CLN-" and six hexadecimal
\* digits of a fresh uuid4, drawn again while a stored MemberContribution has
\* it. The rows being built are not stored yet, so the draw for one member
\* does not see the draws for the others.
References == 1..MaxRefs
generate_reference(rows) ==
    {ref \in References : ~\E m \in DOMAIN rows : rows[m].reference = ref}

\* MemberContribution.reference, unique=True: bulk_create of the rows new
\* into the table rows raises IntegrityError.
ReferenceUniqueViolated(rows, new) ==
    \/ \E i \in DOMAIN new, m \in DOMAIN rows : rows[m].reference = new[i].reference
    \/ \E i, j \in DOMAIN new : i # j /\ new[i].reference = new[j].reference

\* signals.py create_member_contributions up to bulk_create, for one of
\* several dispatches running side by side: the handler takes no lock, so
\* what it read (the eligible members, the due date, that no obligation
\* existed, and the references it generated) is a snapshot.
create_member_contributions_check(k, c, refs) ==
    /\ fanouts[k] = NotDispatched
    /\ c \in DOMAIN cts
    /\ LET members == members_qs(cts[c])
           due     == IF cts[c].due_date # NoDate THEN cts[c].due_date
                      ELSE calculate_due_date(cts[c].recurrence, today)
       IN IF members = {} \/ ContributionsExist(mcs, c) THEN
               /\ fanouts' = fanouts
               /\ last' = [op |-> "create_member_contributions", ct |-> c,
                           res |-> "ok", fault |-> "none"]
          ELSE /\ \A a \in members : refs[a] \in generate_reference(mcs)
               /\ fanouts' = [fanouts EXCEPT ![k] =
                                 [ct |-> c, members |-> members, due |-> due,
                                  refs |-> [a \in members |-> refs[a]]]]
               /\ last' = [op |-> "create_member_contributions_check", ct |-> c,
                           res |-> "ok", fault |-> "none"]
    /\ UNCHANGED <<accounts, cts, mcs, payments, today, secret, jobs, admin>>

\* signals.py create_member_contributions from bulk_create on, with the rows
\* built from the snapshot: the insert is one transaction, and a row that
\* repeats (account, contribution_type, due_date) or a reference makes it
\* raise; the except clause logs and re-raises.
create_member_contributions_insert(k) ==
    /\ fanouts[k] # NotDispatched
    /\ LET c    == fanouts[k].ct
           rows == contributions_to_create(mcs, c, cts[c], fanouts[k].members, fanouts[k].due)
           new  == [i \in DOMAIN rows |->
                        [rows[i] EXCEPT !.reference = fanouts[k].refs[rows[i].account]]]
       IN IF \E i \in DOMAIN new : UniqueTogetherViolated(mcs, new[i]) THEN
               /\ mcs' = mcs
               /\ last' = [op |-> "create_member_contributions", ct |-> c,
                           res |-> "error", fault |-> "unique_together"]
          ELSE IF ReferenceUniqueViolated(mcs, new) THEN
               /\ mcs' = mcs
               /\ last' = [op |-> "create_member_contributions", ct |-> c,
                           res |-> "error", fault |-> "reference"]
          ELSE /\ mcs' = [m \in DOMAIN mcs \cup DOMAIN new |->
                              IF m \in DOMAIN mcs THEN mcs[m] ELSE new[m]]
               /\ last' = [op |-> "create_member_contributions", ct |-> c,
                           res |-> "ok", fault |-> "none"]
    /\ fanouts' = [fanouts EXCEPT ![k] = NotDispatched]
    /\ UNCHANGED <<accounts, cts, payments, today, secret, jobs, admin>>

\* A day passes.
Tick ==
    /\ today < MaxDay
    /\ today' = today + 1
    /\ last' = [op |-> "tick", ct |-> 0, res |-> "ok"]
    /\ UNCHANGED <<accounts, cts, mcs, payments, secret, jobs, admin, fanouts>>

Empty == [x \in {} |-> 0]

\* The member directory the fan-out specification ranges over: every flag
\* the fan-out reads takes both of its values.
Profiles ==
    { [is_active |-> act, is_approved |-> TRUE, is_family_leader |-> ldr,
       role |-> r, family |-> "F1", member_classification |-> cls,
       is_staff |-> FALSE] :
         act \in BOOLEAN, ldr \in BOOLEAN, r \in {"MEMBER", "TREASURER"},
         cls \in {"CHILD", "PARENT"} }
    \cup
    { [is_active |-> TRUE, is_approved |-> FALSE, is_family_leader |-> TRUE,
       role |-> "TREASURER", family |-> "F1", member_classification |-> "PARENT",
       is_staff |-> FALSE],
      [is_active |-> TRUE, is_approved |-> TRUE, is_family_leader |-> FALSE,
       role |-> "MEMBER", family |-> "F2", member_classification |-> "PARENT",
       is_staff |-> FALSE] }

FanoutInit ==
    /\ accounts \in [1..NumFanoutAccounts -> Profiles]
    /\ cts = Empty
    /\ mcs = Empty
    /\ payments = Empty
    /\ today = 0
    /\ secret = YOCO_SECRET_KEY
    /\ jobs = <<>>
    /\ admin = Empty
    /\ fanouts = [k \in 1..NumDispatches |-> NotDispatched]
    /\ last = [op |-> "none", ct |-> 0, res |-> "ok"]

FanoutNext ==
    \/ \E u \in DOMAIN accounts, scope \in SCOPE_CHOICES, family \in Families \cup {NoFamily},
          amount \in Amounts, recurrence \in Recurrence, due \in {NoDate, OnceOffDays} :
            add_contribution(u, scope, family, amount, recurrence, due, "none")
    \/ \E u \in DOMAIN accounts, c \in DOMAIN cts, amount \in Amounts :
            update_contribution(u, c, amount)
    \/ \E c \in DOMAIN cts : post_save_again(c, "none")
    \/ Tick

SpecFanout == FanoutInit /\ [][FanoutNext]_vars

\* The fan-out with an exception at any place of the handler.
FaultyFanoutNext ==
    \/ \E u \in DOMAIN accounts, scope \in SCOPE_CHOICES, family \in Families \cup {NoFamily},
          fault \in Faults :
            add_contribution(u, scope, family, MaxAmount, "monthly", NoDate, fault)
    \/ \E c \in DOMAIN cts, fault \in Faults : post_save_again(c, fault)

SpecFaultyFanout == FanoutInit /\ [][FaultyFanoutNext]_vars

\* Several dispatches of the fan-out side by side, for a ContributionType
\* that was stored while its own fan-out failed or found nobody to bill.
ConcurrentFanoutNext ==
    \/ \E u \in DOMAIN accounts, scope \in SCOPE_CHOICES, family \in Families \cup {NoFamily},
          fault \in {"none", "bulk_create"} :
            add_contribution(u, scope, family, MaxAmount, "monthly", NoDate, fault)
    \/ \E k \in DOMAIN fanouts, c \in DOMAIN cts, refs \in [DOMAIN accounts -> References] :
            create_member_contributions_check(k, c, refs)
    \/ \E k \in DOMAIN fanouts : create_member_contributions_insert(k)
    \/ Tick

SpecConcurrentFanout == FanoutInit /\ [][ConcurrentFanoutNext]_vars


\* ------------------------------------------------------ the payment model

NoMC == 0
NoUser == 0
NoTxn == ""
NoSig == <<>>

PaymentMethod == {"cash", "bank", "mobile", "other"}
unpaid_statuses == {NOT_PAID, MC_PENDING, AWAITING_APPROVAL}

\* Payment.update_member_contribution_status on the obligation table M
update_member_contribution_status(M, row, status) ==
    IF row.member_contribution = NoMC \/ row.member_contribution \notin DOMAIN M THEN M
    ELSE [M EXCEPT ![row.member_contribution].is_paid = status]

\* Payment.save: "Determine new status" from this payment alone
new_status(row, due) ==
    LET total_paid == IF row.is_approved = APPROVED THEN row.amount ELSE 0
    IN IF total_paid >= due THEN PAID
       ELSE IF total_paid > 0 THEN PARTIALLY_PAID
       ELSE AWAITING_APPROVAL

\* Payment.save: the row is written and the linked obligation's status is
\* recomputed, in one transaction.
PaymentSave(P, M, pid, row) ==
    LET P2 == [x \in DOMAIN P \cup {pid} |-> IF x = pid THEN row ELSE P[x]]
        mc == row.member_contribution
    IN IF mc = NoMC \/ mc \notin DOMAIN M THEN [payments |-> P2, mcs |-> M]
       ELSE [payments |-> P2,
             mcs |-> [M EXCEPT ![mc].is_paid = new_status(row, M[mc].amount_due)]]

\* Payment.approve_payment(approved_by, rejection_reason) of the loaded object row
approve_payment(P, M, pid, row, approved_by, rejection_reason) ==
    LET row2  == [row EXCEPT !.is_approved = IF rejection_reason THEN REJECTED ELSE APPROVED,
                             !.payment_verified_by = approved_by]
        saved == PaymentSave(P, M, pid, row2)
    IN IF row2.is_approved = APPROVED /\ row2.member_contribution # NoMC
       THEN [payments |-> saved.payments,
             mcs |-> update_member_contribution_status(saved.mcs, row2, PAID)]
       ELSE saved

NoPayment(P, mc) == FALSE

\* The OneToOneField Payment.member_contribution: at most one Payment per obligation
HasPayment(P, mc) == \E x \in DOMAIN P : P[x].member_contribution = mc
PaymentOf(P, mc) == CHOOSE x \in DOMAIN P : P[x].member_contribution = mc

\* forms.py PaymentCheckoutForm: the queryset of member_contribution, clean(),
\* and the model's unique check of the one-to-one field
PaymentCheckoutFormValid(u, fmc, amount) ==
    \/ fmc = NoMC
    \/ /\ fmc \in DOMAIN mcs
       /\ mcs[fmc].account = u
       /\ mcs[fmc].is_paid = NOT_PAID
       /\ amount > 0
       /\ amount = mcs[fmc].amount_due
       /\ ~HasPayment(payments, fmc)

\* forms.py LogPaymentForm: queryset, clean(), required fields, unique check
ProofInputs == {"none", "pdf", "zip", "large_pdf"}
LogPaymentFormValid(fmc, amount, proof, reference_given) ==
    /\ fmc # NoMC
    /\ fmc \in DOMAIN mcs
    /\ mcs[fmc].is_paid \in unpaid_statuses
    /\ reference_given
    /\ amount > 0
    /\ amount = mcs[fmc].amount_due
    /\ proof = "pdf"
    /\ ~HasPayment(payments, fmc)

NewPayment(account, mc, method, amount, reference) ==
    [account |-> account, member_contribution |-> mc, payment_method |-> method,
     amount |-> amount, reference |-> reference, is_approved |-> LP_PENDING,
     payment_verified_by |-> NoUser, checkout_id |-> 0,
     payment_method_masked_card |-> NoTxn]

\* One element of the queue: the obligation the job was queued for and, once
\* the job has read it, the Payment object the job holds.
NotRead == [is_approved |-> "not read"]
Enqueue(q, mc) == Append(q, [mc |-> mc, p |-> 0, row |-> NotRead])

\* views/checkout.py checkout (POST)
checkout(u, id, fmc, amount, method) ==
    /\ Len(jobs) < MaxJobs
    /\ IF id \notin DOMAIN mcs \/ mcs[id].is_paid \notin {NOT_PAID, MC_PENDING, AWAITING_APPROVAL} THEN
            /\ last' = [op |-> "checkout", p |-> 0, mc |-> NoMC, res |-> "404"]
            /\ UNCHANGED <<payments, mcs, jobs>>
       ELSE IF mcs[id].account # u /\ ~accounts[u].is_staff THEN
            /\ last' = [op |-> "checkout", p |-> 0, mc |-> NoMC, res |-> "denied"]
            /\ UNCHANGED <<payments, mcs, jobs>>
       ELSE IF ~cts[mcs[id].contribution_type].is_active THEN
            /\ last' = [op |-> "checkout", p |-> 0, mc |-> NoMC, res |-> "inactive"]
            /\ UNCHANGED <<payments, mcs, jobs>>
       ELSE IF \E x \in DOMAIN payments : /\ payments[x].member_contribution = id
                                          /\ payments[x].is_approved \in {LP_PENDING, LP_NOT_PAID} THEN
            /\ last' = [op |-> "checkout", p |-> 0, mc |-> NoMC, res |-> "exists"]
            /\ UNCHANGED <<payments, mcs, jobs>>
       ELSE IF ~PaymentCheckoutFormValid(u, fmc, amount) THEN
            /\ last' = [op |-> "checkout", p |-> 0, mc |-> NoMC, res |-> "invalid"]
            /\ UNCHANGED <<payments, mcs, jobs>>
       ELSE LET pid   == NextId(payments)
                row   == NewPayment(mcs[id].account, fmc, method, amount, mcs[id].reference)
                saved == PaymentSave(payments, mcs, pid, row)
            IN /\ payments' = saved.payments
               /\ IF method \in {"cash", "bank"} THEN
                      /\ mcs' = update_member_contribution_status(saved.mcs, row, AWAITING_APPROVAL)
                      /\ jobs' = Enqueue(jobs, id)
                      /\ last' = [op |-> "checkout", p |-> pid, mc |-> id, res |-> "ok"]
                  ELSE IF method = "mobile" THEN
                      /\ mcs' = update_member_contribution_status(saved.mcs, row, AWAITING_APPROVAL)
                      /\ jobs' = jobs
                      /\ last' = [op |-> "checkout", p |-> pid, mc |-> id, res |-> "yoco"]
                  ELSE
                      /\ mcs' = saved.mcs
                      /\ jobs' = jobs
                      /\ last' = [op |-> "checkout", p |-> pid, mc |-> id, res |-> "bad_method"]
    /\ UNCHANGED <<accounts, cts, today, secret, admin, fanouts>>

\* views/checkout.py log_payment (POST)
log_payment(u, id, fmc, amount, method, proof, reference_given) ==
    /\ Len(jobs) < MaxJobs
    /\ IF accounts[u].role # "TREASURER" /\ ~accounts[u].is_staff THEN
            /\ last' = [op |-> "log_payment", p |-> 0, mc |-> NoMC, res |-> "denied"]
            /\ UNCHANGED <<payments, mcs, jobs>>
       ELSE IF id \notin DOMAIN mcs THEN
            /\ last' = [op |-> "log_payment", p |-> 0, mc |-> NoMC, res |-> "404"]
            /\ UNCHANGED <<payments, mcs, jobs>>
       ELSE IF ~LogPaymentFormValid(fmc, amount, proof, reference_given) THEN
            /\ last' = [op |-> "log_payment", p |-> 0, mc |-> NoMC, res |-> "invalid"]
            /\ UNCHANGED <<payments, mcs, jobs>>
       ELSE IF HasPayment(payments, id) THEN
            \* IntegrityError of the one-to-one column: the transaction rolls back
            /\ last' = [op |-> "log_payment", p |-> 0, mc |-> NoMC, res |-> "error"]
            /\ UNCHANGED <<payments, mcs, jobs>>
       ELSE LET pid   == NextId(payments)
                row   == NewPayment(mcs[id].account, id, method, amount, mcs[id].reference)
                saved == PaymentSave(payments, mcs, pid, row)
            IN /\ payments' = saved.payments
               /\ mcs' = update_member_contribution_status(saved.mcs, row, MC_PENDING)
               /\ jobs' = Enqueue(jobs, id)
               /\ last' = [op |-> "log_payment", p |-> pid, mc |-> id, res |-> "ok"]
    /\ UNCHANGED <<accounts, cts, today, secret, admin, fanouts>>

\* utils/yoco_funcs.py decimal_to_str: the decimal point is dropped from the
\* amount as it prints, two decimal places as the column stores it.
decimal_to_str(amount) == amount * MinorUnits

\* utils/yoco_funcs.py generate_idempotency_key: a digest of "<id>-<amount>"
generate_idempotency_key(order, amount) == <<"sha256", order, decimal_to_str(amount)>>

\* utils/yoco_funcs.py headers: what every request to the gateway carries
NoKey == <<>>
headers == [Authorization |-> YOCO_SECRET_KEY, IdempotencyKey |-> NoKey]

\* The gateway answers a request that carries no idempotency key with a
\* session of its own, under an id it has not given out before.
RECURSIVE MaxCheckoutId(_, _)
MaxCheckoutId(P, S) ==
    IF S = {} THEN 0
    ELSE LET x == CHOOSE y \in S : TRUE
             m == MaxCheckoutId(P, S \ {x})
         IN IF P[x].checkout_id > m THEN P[x].checkout_id ELSE m
NewSessionId(P) == MaxCheckoutId(P, DOMAIN P) + 1

\* views/payment.py yoco_checkout (POST); gateway is what the request to the
\* gateway came to.
GatewayOutcomes == {"ok", "connection_error", "http_error", "no_id", "no_redirect_url"}
EveryAnswerGaveSession(gateway) == gateway # "connection_error"
GatewayGaveSession(gateway) == gateway \in {"ok", "no_redirect_url"}
yoco_checkout(u, pid, gateway) ==
    /\ GatewayGaveSession(gateway) => NewSessionId(payments) <= MaxSessions
    /\ IF pid \notin DOMAIN payments \/ payments[pid].account # u THEN
            /\ last' = [op |-> "yoco_checkout", p |-> 0, mc |-> NoMC, res |-> "404"]
            /\ UNCHANGED <<payments, mcs>>
       ELSE IF payments[pid].member_contribution = NoMC THEN
            /\ last' = [op |-> "yoco_checkout", p |-> 0, mc |-> NoMC, res |-> "invalid"]
            /\ UNCHANGED <<payments, mcs>>
       ELSE IF ~GatewayGaveSession(gateway) THEN
            \* requests.ConnectionError, requests.HTTPError, or KeyError on "id"
            /\ last' = [op |-> "yoco_checkout", p |-> pid,
                        mc |-> payments[pid].member_contribution, res |-> "retry",
                        gateway |-> gateway, key |-> headers.IdempotencyKey]
            /\ UNCHANGED <<payments, mcs>>
       ELSE LET row   == [payments[pid] EXCEPT !.checkout_id = NewSessionId(payments),
                                               !.is_approved = LP_PENDING]
                saved == PaymentSave(payments, mcs, pid, row)
            IN /\ payments' = saved.payments
               /\ mcs' = update_member_contribution_status(saved.mcs, row, MC_PENDING)
               \* KeyError on "redirectUrl" is caught after both writes
               /\ last' = [op |-> "yoco_checkout", p |-> pid,
                           mc |-> row.member_contribution,
                           res |-> IF gateway = "ok" THEN "redirect" ELSE "retry",
                           gateway |-> gateway, key |-> headers.IdempotencyKey]
    /\ UNCHANGED <<accounts, cts, today, secret, jobs, admin, fanouts>>

\* views/payment.py payment_success
payment_success(id) ==
    /\ Len(jobs) < MaxJobs
    /\ IF id \notin DOMAIN mcs THEN
            /\ last' = [op |-> "payment_success", p |-> 0, mc |-> NoMC, res |-> "404"]
            /\ UNCHANGED <<payments, mcs, jobs>>
       ELSE IF ~HasPayment(payments, id) THEN
            \* member_contribution.payment raises RelatedObjectDoesNotExist
            /\ last' = [op |-> "payment_success", p |-> 0, mc |-> NoMC, res |-> "500"]
            /\ UNCHANGED <<payments, mcs, jobs>>
       ELSE LET pid   == PaymentOf(payments, id)
                row   == [payments[pid] EXCEPT !.is_approved = APPROVED]
                saved == PaymentSave(payments, mcs, pid, row)
            IN /\ payments' = saved.payments
               /\ mcs' = update_member_contribution_status(saved.mcs, row, PAID)
               /\ jobs' = Enqueue(jobs, id)
               /\ last' = [op |-> "payment_success", p |-> pid, mc |-> id, res |-> "ok"]
    /\ UNCHANGED <<accounts, cts, today, secret, admin, fanouts>>

\* views/payment.py payment_cancelled
payment_cancelled(id) ==
    /\ IF id \notin DOMAIN mcs THEN
            /\ last' = [op |-> "payment_cancelled", p |-> 0, mc |-> NoMC, res |-> "404"]
            /\ UNCHANGED <<payments, mcs>>
       ELSE IF ~HasPayment(payments, id) THEN
            /\ last' = [op |-> "payment_cancelled", p |-> 0, mc |-> NoMC, res |-> "500"]
            /\ UNCHANGED <<payments, mcs>>
       ELSE LET pid   == PaymentOf(payments, id)
                row   == [payments[pid] EXCEPT !.is_approved = REJECTED]
                M1    == update_member_contribution_status(mcs, row, CANCELLED)
                saved == PaymentSave(payments, M1, pid, row)
            IN /\ payments' = saved.payments
               /\ mcs' = saved.mcs
               /\ last' = [op |-> "payment_cancelled", p |-> pid, mc |-> id, res |-> "ok"]
    /\ UNCHANGED <<accounts, cts, today, secret, jobs, admin, fanouts>>

\* views/payment.py payment_failed
payment_failed(id) ==
    /\ IF id \notin DOMAIN mcs THEN
            /\ last' = [op |-> "payment_failed", p |-> 0, mc |-> NoMC, res |-> "404"]
            /\ UNCHANGED <<payments, mcs>>
       ELSE IF ~HasPayment(payments, id) THEN
            /\ last' = [op |-> "payment_failed", p |-> 0, mc |-> NoMC, res |-> "500"]
            /\ UNCHANGED <<payments, mcs>>
       ELSE LET pid   == PaymentOf(payments, id)
                M1    == update_member_contribution_status(mcs, payments[pid], NOT_PAID)
                row   == [payments[pid] EXCEPT !.is_approved = LP_NOT_PAID]
                saved == PaymentSave(payments, M1, pid, row)
            IN /\ payments' = saved.payments
               /\ mcs' = saved.mcs
               /\ last' = [op |-> "payment_failed", p |-> pid, mc |-> id, res |-> "ok"]
    /\ UNCHANGED <<accounts, cts, today, secret, jobs, admin, fanouts>>

\* ------------------------------------------------------- the gateway callback

\* hmac.new(key, msg, sha256).hexdigest(): a digest is determined by the key
\* and the message, and distinct (key, message) pairs give distinct digests.
hmac_hexdigest(key, msg) == <<key, msg>>

\* str.lower() on the status values the callback is sent
Lower(st) == IF st = "SUCCESS" THEN "success"
             ELSE IF st = "FAILED" THEN "failed"
             ELSE st

\* yoco_callback: "if secret and yoco_signature: ... if not compare_digest(...)"
SignatureRejected(key, yoco_signature, yoco_transaction_id, yoco_status) ==
    /\ key # ""
    /\ yoco_signature # NoSig
    /\ yoco_signature # hmac_hexdigest(key, yoco_transaction_id \o yoco_status)

\* views/payment.py yoco_callback(transactionId, status, signature)
yoco_callback(transactionId, status, signature) ==
    LET yoco_status == Lower(status)
        inputs == [txn |-> transactionId, status |-> status, sig |-> signature]
        matches == {x \in DOMAIN payments :
                        payments[x].payment_method_masked_card = transactionId}
    IN
    /\ IF transactionId = NoTxn \/ yoco_status = "" THEN
            /\ last' = [op |-> "yoco_callback", p |-> 0, mc |-> NoMC, res |-> "400", req |-> inputs]
            /\ UNCHANGED <<payments, mcs>>
       ELSE IF SignatureRejected(secret, signature, transactionId, yoco_status) THEN
            /\ last' = [op |-> "yoco_callback", p |-> 0, mc |-> NoMC, res |-> "403", req |-> inputs]
            /\ UNCHANGED <<payments, mcs>>
       ELSE IF matches = {} THEN
            /\ last' = [op |-> "yoco_callback", p |-> 0, mc |-> NoMC, res |-> "404", req |-> inputs]
            /\ UNCHANGED <<payments, mcs>>
       ELSE \E pid \in matches :
            LET row == payments[pid] IN
            IF row.member_contribution = NoMC THEN
                \* payment.member_contribution.amount_due / .id raises inside
                \* the atomic block: the writes roll back
                /\ last' = [op |-> "yoco_callback", p |-> 0, mc |-> NoMC, res |-> "500", req |-> inputs]
                /\ UNCHANGED <<payments, mcs>>
            ELSE IF yoco_status = "success" THEN
                LET saved == PaymentSave(payments, mcs, pid, row)
                IN /\ payments' = saved.payments
                   /\ mcs' = update_member_contribution_status(saved.mcs, row, PAID)
                   /\ last' = [op |-> "yoco_callback", p |-> pid,
                               mc |-> row.member_contribution, res |-> "success", req |-> inputs]
            ELSE
                LET M1    == update_member_contribution_status(mcs, row, NOT_PAID)
                    saved == PaymentSave(payments, M1, pid, row)
                IN /\ payments' = saved.payments
                   /\ mcs' = saved.mcs
                   /\ last' = [op |-> "yoco_callback", p |-> pid,
                               mc |-> row.member_contribution, res |-> "failed", req |-> inputs]
    /\ UNCHANGED <<accounts, cts, today, secret, jobs, admin, fanouts>>

\* The gateway's card metadata stored on a Payment (AbstractPayment
\* .payment_method_masked_card), the column yoco_callback looks a Payment up by.
StoreCardMetadata(pid, txn) ==
    /\ pid \in DOMAIN payments
    /\ payments[pid].payment_method = "mobile"
    /\ payments[pid].checkout_id # 0
    /\ payments[pid].payment_method_masked_card = NoTxn
    /\ payments' = [payments EXCEPT ![pid].payment_method_masked_card = txn]
    /\ last' = [op |-> "card_metadata", p |-> pid, mc |-> payments[pid].member_contribution,
                res |-> "ok"]
    /\ UNCHANGED <<accounts, cts, mcs, today, secret, jobs, admin, fanouts>>

\* -------------------------------------------------------------- the admin

Idle == [p |-> 0]

\* admin.py PaymentAdmin.approve_payment: queryset.filter(is_approved="PENDING")
\* is evaluated, loading the selected Payment
approve_action_load(s, pid) ==
    /\ s \in DOMAIN admin
    /\ admin[s] = Idle
    /\ pid \in DOMAIN payments
    /\ IF payments[pid].is_approved = LP_PENDING
       THEN /\ admin' = [admin EXCEPT ![s] = [p |-> pid, row |-> payments[pid]]]
            /\ last' = [op |-> "approve_load", p |-> pid,
                        mc |-> payments[pid].member_contribution, res |-> "loaded"]
       ELSE /\ admin' = admin
            /\ last' = [op |-> "approve_load", p |-> pid,
                        mc |-> payments[pid].member_contribution, res |-> "no_pending"]
    /\ UNCHANGED <<accounts, cts, mcs, payments, today, secret, jobs, fanouts>>

\* admin.py PaymentAdmin.approve_payment: payment.approve_payment(request.user)
\* on the loaded object
approve_action_apply(s) ==
    /\ s \in DOMAIN admin
    /\ admin[s] # Idle
    /\ LET pid == admin[s].p
           out == approve_payment(payments, mcs, pid, admin[s].row, s, FALSE)
       IN /\ payments' = out.payments
          /\ mcs' = out.mcs
          /\ last' = [op |-> "approve_payment", p |-> pid,
                      mc |-> admin[s].row.member_contribution, res |-> "ok"]
    /\ admin' = [admin EXCEPT ![s] = Idle]
    /\ UNCHANGED <<accounts, cts, today, secret, jobs, fanouts>>

\* admin.py PaymentAdmin.reject_payment: queryset.filter(...).update(...)
reject_payment(s, pid) ==
    /\ s \in DOMAIN admin
    /\ pid \in DOMAIN payments
    /\ IF payments[pid].is_approved = LP_PENDING
       THEN /\ payments' = [payments EXCEPT ![pid].is_approved = REJECTED]
            /\ last' = [op |-> "reject_payment", p |-> pid,
                        mc |-> payments[pid].member_contribution, res |-> "ok"]
       ELSE /\ payments' = payments
            /\ last' = [op |-> "reject_payment", p |-> pid,
                        mc |-> payments[pid].member_contribution, res |-> "none"]
    /\ UNCHANGED <<accounts, cts, mcs, today, secret, jobs, admin, fanouts>>

\* ---------------------------------------------------------------- the worker

\* tasks.py send_payment_confirmation_task (send_payment_details_task wraps
\* it), up to the rendering of the invoice: the job reads the obligation and
\* its Payment, and ends where either is missing.
send_payment_confirmation_task_read ==
    /\ jobs # <<>>
    /\ Head(jobs).p = 0
    /\ LET id == Head(jobs).mc IN
       IF id \notin DOMAIN mcs \/ ~HasPayment(payments, id) THEN
            /\ jobs' = Tail(jobs)
            /\ last' = [op |-> "job", p |-> 0, mc |-> id, res |-> "false"]
       ELSE LET pid == PaymentOf(payments, id)
            IN /\ jobs' = [jobs EXCEPT ![1] = [mc |-> id, p |-> pid, row |-> payments[pid]]]
               /\ last' = [op |-> "job_read", p |-> pid, mc |-> id, res |-> "ok"]
    /\ UNCHANGED <<accounts, cts, mcs, payments, today, secret, admin, fanouts>>

\* tasks.py send_payment_confirmation_task, from the rendering of the invoice
\* on: payment.proof_of_payment.save(..., save=True) saves the Payment object
\* the job read earlier, every column of it, through Payment.save; an
\* exception of the rendering or of the mail is logged and the job ends.
send_payment_confirmation_task(rendered) ==
    /\ jobs # <<>>
    /\ Head(jobs).p # 0
    /\ jobs' = Tail(jobs)
    /\ LET id  == Head(jobs).mc
           pid == Head(jobs).p
       IN IF ~rendered \/ Head(jobs).row.member_contribution \notin DOMAIN mcs THEN
               \* also the IntegrityError of saving a link to a deleted obligation
               /\ last' = [op |-> "job", p |-> 0, mc |-> id, res |-> "false"]
               /\ UNCHANGED <<payments, mcs>>
          ELSE LET saved == PaymentSave(payments, mcs, pid, Head(jobs).row)
               IN /\ payments' = saved.payments
                  /\ mcs' = saved.mcs
                  /\ last' = [op |-> "job", p |-> pid, mc |-> id, res |-> "true"]
    /\ UNCHANGED <<accounts, cts, today, secret, admin, fanouts>>

\* views/member_contr.py is_treasurer_or_admin
member_contr_is_treasurer_or_admin(u) ==
    accounts[u].is_staff \/ accounts[u].role = "TREASURER"

\* views/member_contr.py update_member_contribution (POST) with
\* forms.py MemberContributionForm: the form's fields include amount_due and
\* is_paid, and the view lets the obligation's owner post it. The request
\* resubmits account, contribution_type, reference and due_date as they are.
update_member_contribution(u, id, amount_due, is_paid) ==
    /\ id \in DOMAIN mcs
    /\ IF ~(member_contr_is_treasurer_or_admin(u) \/ mcs[id].account = u
            \/ accounts[u].is_staff) THEN
            /\ last' = [op |-> "update_member_contribution", p |-> 0, mc |-> id,
                        res |-> "denied", by |-> u]
            /\ UNCHANGED mcs
       ELSE /\ mcs' = [mcs EXCEPT ![id].amount_due = amount_due, ![id].is_paid = is_paid]
            /\ last' = [op |-> "update_member_contribution", p |-> 0, mc |-> id,
                        res |-> "ok", by |-> u]
    /\ UNCHANGED <<accounts, cts, payments, today, secret, jobs, admin, fanouts>>

\* ---------------------------------------------------------------- deletion

\* Payment.member_contribution, on_delete=SET_NULL: the Payments of the
\* deleted obligations gone lose their link.
SetNull(P, gone) ==
    [x \in DOMAIN P |-> IF P[x].member_contribution \in gone
                        THEN [P[x] EXCEPT !.member_contribution = NoMC] ELSE P[x]]

\* views/member_contr.py delete_member_contribution (POST)
delete_member_contribution(u, id) ==
    /\ IF id \notin DOMAIN mcs THEN
            /\ last' = [op |-> "delete_member_contribution", p |-> 0, mc |-> NoMC, res |-> "404"]
            /\ UNCHANGED <<mcs, payments>>
       ELSE IF ~(member_contr_is_treasurer_or_admin(u) \/ accounts[u].is_staff) THEN
            /\ last' = [op |-> "delete_member_contribution", p |-> 0, mc |-> id, res |-> "denied"]
            /\ UNCHANGED <<mcs, payments>>
       ELSE /\ mcs' = [m \in DOMAIN mcs \ {id} |-> mcs[m]]
            /\ payments' = SetNull(payments, {id})
            /\ last' = [op |-> "delete_member_contribution", p |-> 0, mc |-> id, res |-> "ok"]
    /\ UNCHANGED <<accounts, cts, today, secret, jobs, admin, fanouts>>

\* views/contributions.py delete_contribution (POST); MemberContribution
\* .contribution_type is on_delete=CASCADE.
delete_contribution(u, c) ==
    /\ IF ~accounts[u].is_staff THEN
            /\ last' = [op |-> "delete_contribution", p |-> 0, mc |-> NoMC, res |-> "denied"]
            /\ UNCHANGED <<cts, mcs, payments>>
       ELSE IF c \notin DOMAIN cts THEN
            /\ last' = [op |-> "delete_contribution", p |-> 0, mc |-> NoMC, res |-> "404"]
            /\ UNCHANGED <<cts, mcs, payments>>
       ELSE IF \E x \in DOMAIN payments :
                    /\ payments[x].member_contribution \in DOMAIN mcs
                    /\ mcs[payments[x].member_contribution].contribution_type = c THEN
            /\ last' = [op |-> "delete_contribution", p |-> 0, mc |-> NoMC, res |-> "has_payments"]
            /\ UNCHANGED <<cts, mcs, payments>>
       ELSE LET gone == {m \in DOMAIN mcs : mcs[m].contribution_type = c}
            IN /\ cts' = [x \in DOMAIN cts \ {c} |-> cts[x]]
               /\ mcs' = [m \in DOMAIN mcs \ gone |-> mcs[m]]
               /\ payments' = SetNull(payments, gone)
               /\ last' = [op |-> "delete_contribution", p |-> 0, mc |-> NoMC, res |-> "ok"]
    /\ UNCHANGED <<accounts, today, secret, jobs, admin, fanouts>>

\* ------------------------------------------------- the handlers, write by write

\* The handlers that write Payment.is_approved and the obligation's status do
\* so in two commits: Payment.save has its own transaction.atomic, and
\* update_member_contribution_status saves the obligation outside it. The
\* actions below take one commit each; last holds the request between its two
\* commits, and a request that never takes its second commit has crashed.

\* views/payment.py payment_success: payment.save(update_fields=["is_approved"])
payment_success_save(id) ==
    /\ Len(jobs) < MaxJobs
    /\ id \in DOMAIN mcs
    /\ HasPayment(payments, id)
    /\ LET pid   == PaymentOf(payments, id)
           row   == [payments[pid] EXCEPT !.is_approved = APPROVED]
           saved == PaymentSave(payments, mcs, pid, row)
       IN /\ payments' = saved.payments
          /\ mcs' = saved.mcs
          /\ last' = [op |-> "payment_success", p |-> pid, mc |-> id, res |-> "saved"]
    /\ UNCHANGED <<accounts, cts, today, secret, jobs, admin, fanouts>>

\* views/payment.py payment_success:
\* payment.update_member_contribution_status(PaymentStatus.PAID) and async_task
payment_success_status ==
    /\ last.op = "payment_success" /\ last.res = "saved"
    /\ mcs' = update_member_contribution_status(mcs, payments[last.p], PAID)
    /\ jobs' = Enqueue(jobs, last.mc)
    /\ last' = [last EXCEPT !.res = "ok"]
    /\ UNCHANGED <<accounts, cts, payments, today, secret, admin, fanouts>>

\* views/payment.py payment_cancelled:
\* payment.update_member_contribution_status(PaymentStatus.CANCELLED)
payment_cancelled_status(id) ==
    /\ id \in DOMAIN mcs
    /\ HasPayment(payments, id)
    /\ LET pid == PaymentOf(payments, id)
       IN /\ mcs' = update_member_contribution_status(mcs, payments[pid], CANCELLED)
          /\ last' = [op |-> "payment_cancelled", p |-> pid, mc |-> id, res |-> "status"]
    /\ UNCHANGED <<accounts, cts, payments, today, secret, jobs, admin, fanouts>>

\* views/payment.py payment_cancelled: payment.save(update_fields=["is_approved"])
payment_cancelled_save ==
    /\ last.op = "payment_cancelled" /\ last.res = "status"
    /\ LET row   == [payments[last.p] EXCEPT !.is_approved = REJECTED]
           saved == PaymentSave(payments, mcs, last.p, row)
       IN /\ payments' = saved.payments
          /\ mcs' = saved.mcs
    /\ last' = [last EXCEPT !.res = "ok"]
    /\ UNCHANGED <<accounts, cts, today, secret, jobs, admin, fanouts>>

\* views/payment.py payment_failed:
\* payment.update_member_contribution_status(PaymentStatus.NOT_PAID)
payment_failed_status(id) ==
    /\ id \in DOMAIN mcs
    /\ HasPayment(payments, id)
    /\ LET pid == PaymentOf(payments, id)
       IN /\ mcs' = update_member_contribution_status(mcs, payments[pid], NOT_PAID)
          /\ last' = [op |-> "payment_failed", p |-> pid, mc |-> id, res |-> "status"]
    /\ UNCHANGED <<accounts, cts, payments, today, secret, jobs, admin, fanouts>>

\* views/payment.py payment_failed: payment.save(update_fields=["is_approved"])
payment_failed_save ==
    /\ last.op = "payment_failed" /\ last.res = "status"
    /\ LET row   == [payments[last.p] EXCEPT !.is_approved = LP_NOT_PAID]
           saved == PaymentSave(payments, mcs, last.p, row)
       IN /\ payments' = saved.payments
          /\ mcs' = saved.mcs
    /\ last' = [last EXCEPT !.res = "ok"]
    /\ UNCHANGED <<accounts, cts, today, secret, jobs, admin, fanouts>>

\* models.py Payment.approve_payment, called by the admin action on the loaded
\* object: self.save()
approve_payment_save(s) ==
    /\ s \in DOMAIN admin
    /\ admin[s] # Idle
    /\ LET pid   == admin[s].p
           row   == [admin[s].row EXCEPT !.is_approved = APPROVED,
                                         !.payment_verified_by = s]
           saved == PaymentSave(payments, mcs, pid, row)
       IN /\ payments' = saved.payments
          /\ mcs' = saved.mcs
          /\ last' = [op |-> "approve_payment", p |-> pid,
                      mc |-> row.member_contribution, res |-> "saved"]
    /\ admin' = [admin EXCEPT ![s] = Idle]
    /\ UNCHANGED <<accounts, cts, today, secret, jobs, fanouts>>

\* models.py Payment.approve_payment:
\* self.update_member_contribution_status(PaymentStatus.PAID)
approve_payment_status ==
    /\ last.op = "approve_payment" /\ last.res = "saved"
    /\ mcs' = update_member_contribution_status(mcs, payments[last.p], PAID)
    /\ last' = [last EXCEPT !.res = "ok"]
    /\ UNCHANGED <<accounts, cts, payments, today, secret, jobs, admin, fanouts>>

\* ------------------------------------------------------- the specification

\* The directory of the payment specification: an ordinary member, the
\* treasurer (a staff user), and a second staff user who is no approved member.
Directory ==
    [a \in 1..3 |->
        IF a = 1 THEN [is_active |-> TRUE, is_approved |-> TRUE, is_family_leader |-> FALSE,
                       role |-> "MEMBER", family |-> "F1", member_classification |-> "PARENT",
                       is_staff |-> FALSE]
        ELSE IF a = 2 THEN [is_active |-> TRUE, is_approved |-> TRUE, is_family_leader |-> TRUE,
                       role |-> "TREASURER", family |-> "F1", member_classification |-> "PARENT",
                       is_staff |-> TRUE]
        ELSE [is_active |-> TRUE, is_approved |-> FALSE, is_family_leader |-> FALSE,
                       role |-> "MEMBER", family |-> "F2", member_classification |-> "PARENT",
                       is_staff |-> TRUE]]

ContributionTypeRow(scope, amount) ==
    [scope |-> scope, family |-> NoFamily, amount |-> amount, recurrence |-> "monthly",
     due_date |-> NoDate, is_active |-> TRUE]

\* The database after the treasurer created two contribution types, one for
\* the whole clan and one for the executives, and before any payment.
Start ==
    /\ accounts = Directory
    /\ today = 0
    /\ LET c1 == ContributionTypeRow("clan", MaxAmount)
           c2 == ContributionTypeRow("executives", 1)
       IN /\ cts = <<c1, c2>>
          /\ LET m1 == create_member_contributions(Empty, 1, c1, TRUE, 0, "none").rows
             IN mcs = create_member_contributions(m1, 2, c2, TRUE, 0, "none").rows
    /\ payments = Empty
    /\ jobs = <<>>
    /\ admin = [s \in {a \in DOMAIN Directory : Directory[a].is_staff} |-> Idle]
    /\ fanouts = [k \in 1..NumDispatches |-> NotDispatched]
    /\ last = [op |-> "none", p |-> 0, mc |-> NoMC, res |-> "ok"]

AmountInputs == 0..MaxAmount
TxnInputs == {NoTxn, "T1"}
StatusInputs == {"", "success", "SUCCESS", "failed"}
SigInputs == {NoSig} \cup {hmac_hexdigest(k, "T1" \o "success") : k \in {YOCO_SECRET_KEY, "forged"}}
                     \cup {hmac_hexdigest(YOCO_SECRET_KEY, "T1" \o "failed")}

\* The manual channel, the gateway's return pages, the admin and the worker.
Init == Start /\ secret = YOCO_SECRET_KEY

Next ==
    \/ \E u \in DOMAIN accounts, id \in DOMAIN mcs, fmc \in DOMAIN mcs \cup {NoMC},
          amount \in AmountInputs, method \in PaymentMethod :
            NextId(payments) <= MaxPayments /\ checkout(u, id, fmc, amount, method)
    \/ \E u \in DOMAIN accounts, id \in DOMAIN mcs, fmc \in DOMAIN mcs \cup {NoMC},
          amount \in AmountInputs, method \in {"cash", "bank"}, proof \in ProofInputs,
          reference_given \in BOOLEAN :
            NextId(payments) <= MaxPayments
            /\ log_payment(u, id, fmc, amount, method, proof, reference_given)
    \/ \E id \in DOMAIN mcs : payment_success(id)
    \/ \E id \in DOMAIN mcs : payment_cancelled(id)
    \/ \E id \in DOMAIN mcs : payment_failed(id)
    \/ \E s \in DOMAIN admin, pid \in DOMAIN payments : approve_action_load(s, pid)
    \/ \E s \in DOMAIN admin : approve_action_apply(s)
    \/ \E s \in DOMAIN admin, pid \in DOMAIN payments : reject_payment(s, pid)
    \/ send_payment_confirmation_task_read
    \/ \E rendered \in BOOLEAN : send_payment_confirmation_task(rendered)

Spec == Init /\ [][Next]_vars

\* The gateway channel: a mobile checkout, the checkout session, the gateway's
\* callback and its return pages.
GatewayInit == Start /\ secret \in {"", YOCO_SECRET_KEY}

GatewayNext ==
    \/ \E u \in DOMAIN accounts, id \in DOMAIN mcs, fmc \in DOMAIN mcs \cup {NoMC},
          amount \in AmountInputs :
            NextId(payments) <= MaxPayments /\ checkout(u, id, fmc, amount, "mobile")
    \/ \E u \in DOMAIN accounts, pid \in DOMAIN payments, gateway \in GatewayOutcomes :
            yoco_checkout(u, pid, gateway)
    \/ \E pid \in DOMAIN payments : StoreCardMetadata(pid, "T1")
    \/ \E t \in TxnInputs, st \in StatusInputs, sig \in SigInputs : yoco_callback(t, st, sig)
    \/ \E id \in DOMAIN mcs : payment_success(id)
    \/ \E id \in DOMAIN mcs : payment_cancelled(id)
    \/ \E id \in DOMAIN mcs : payment_failed(id)
    \/ send_payment_confirmation_task_read
    \/ \E rendered \in BOOLEAN : send_payment_confirmation_task(rendered)

SpecGateway == GatewayInit /\ [][GatewayNext]_vars

\* Every request an ordinary paying member can make on their own: the member
\* of the directory who is neither staff nor treasurer posts to every view,
\* the gateway never calls back, and the worker runs the queued jobs.
Member == CHOOSE a \in DOMAIN Directory :
              ~Directory[a].is_staff /\ Directory[a].role = "MEMBER"

MemberNext ==
    \/ \E id \in DOMAIN mcs, fmc \in DOMAIN mcs \cup {NoMC}, amount \in AmountInputs,
          method \in PaymentMethod :
            NextId(payments) <= MaxPayments /\ checkout(Member, id, fmc, amount, method)
    \/ \E id \in DOMAIN mcs, amount \in AmountInputs :
            NextId(payments) <= MaxPayments
            /\ log_payment(Member, id, id, amount, "cash", "pdf", TRUE)
    \/ \E pid \in DOMAIN payments, gateway \in GatewayOutcomes :
            yoco_checkout(Member, pid, gateway)
    \/ \E id \in DOMAIN mcs : payment_success(id)
    \/ \E id \in DOMAIN mcs : payment_cancelled(id)
    \/ \E id \in DOMAIN mcs : payment_failed(id)
    \/ \E id \in DOMAIN mcs, amount_due \in AmountInputs, is_paid \in PaymentStatus :
            update_member_contribution(Member, id, amount_due, is_paid)
    \/ \E c \in DOMAIN cts, amount \in Amounts : update_contribution(Member, c, amount)
    \/ send_payment_confirmation_task_read
    \/ \E rendered \in BOOLEAN : send_payment_confirmation_task(rendered)

SpecMember == Init /\ [][MemberNext]_vars

\* The ledger of Payments: the requests that create a Payment or make an
\* existing one REJECTED or NOT PAID, with room for a second Payment.
LedgerNext ==
    \/ \E u \in DOMAIN accounts, id \in DOMAIN mcs, fmc \in DOMAIN mcs \cup {NoMC},
          amount \in AmountInputs, method \in {"cash", "mobile"} :
            NextId(payments) <= MaxLedgerPayments /\ checkout(u, id, fmc, amount, method)
    \/ \E u \in DOMAIN accounts, id \in DOMAIN mcs, fmc \in DOMAIN mcs,
          amount \in AmountInputs :
            NextId(payments) <= MaxLedgerPayments
            /\ log_payment(u, id, fmc, amount, "cash", "pdf", TRUE)
    \/ \E id \in DOMAIN mcs : payment_cancelled(id)
    \/ \E id \in DOMAIN mcs : payment_failed(id)
    \/ \E s \in DOMAIN admin, pid \in DOMAIN payments : reject_payment(s, pid)
    \/ send_payment_confirmation_task_read
    \/ \E rendered \in BOOLEAN : send_payment_confirmation_task(rendered)

SpecLedger == Init /\ [][LedgerNext]_vars

\* The same requests with each commit a step of its own.
WritesNext ==
    \/ \E u \in DOMAIN accounts, id \in DOMAIN mcs, fmc \in DOMAIN mcs \cup {NoMC},
          amount \in AmountInputs, method \in {"cash", "mobile"} :
            NextId(payments) <= MaxPayments /\ checkout(u, id, fmc, amount, method)
    \/ \E u \in DOMAIN accounts, id \in DOMAIN mcs, fmc \in DOMAIN mcs,
          amount \in AmountInputs :
            NextId(payments) <= MaxPayments
            /\ log_payment(u, id, fmc, amount, "cash", "pdf", TRUE)
    \/ \E id \in DOMAIN mcs : payment_success_save(id)
    \/ payment_success_status
    \/ \E id \in DOMAIN mcs : payment_cancelled_status(id)
    \/ payment_cancelled_save
    \/ \E id \in DOMAIN mcs : payment_failed_status(id)
    \/ payment_failed_save
    \/ \E s \in DOMAIN admin, pid \in DOMAIN payments : approve_action_load(s, pid)
    \/ \E s \in DOMAIN admin : approve_payment_save(s)
    \/ approve_payment_status
    \/ send_payment_confirmation_task_read
    \/ \E rendered \in BOOLEAN : send_payment_confirmation_task(rendered)

SpecWrites == Init /\ [][WritesNext]_vars

\* Payments being recorded while obligations and contribution types are
\* deleted.
DeleteNext ==
    \/ \E u \in DOMAIN accounts, id \in DOMAIN mcs, fmc \in DOMAIN mcs \cup {NoMC},
          amount \in AmountInputs, method \in PaymentMethod :
            NextId(payments) <= MaxPayments /\ checkout(u, id, fmc, amount, method)
    \/ \E u \in DOMAIN accounts, id \in DOMAIN mcs, fmc \in DOMAIN mcs,
          amount \in AmountInputs :
            NextId(payments) <= MaxPayments
            /\ log_payment(u, id, fmc, amount, "cash", "pdf", TRUE)
    \/ \E u \in DOMAIN accounts, id \in 1..NextId(mcs) : delete_member_contribution(u, id)
    \/ \E u \in DOMAIN accounts, c \in 1..NextId(cts) : delete_contribution(u, c)
    \/ send_payment_confirmation_task_read
    \/ \E rendered \in BOOLEAN : send_payment_confirmation_task(rendered)

SpecDelete == Init /\ [][DeleteNext]_vars

\* ------------------------------------------------------------- properties

\* C1: after an approval of a Payment linked to an obligation (the admin
\* approve action calling Payment.approve_payment, or payment_success), the
\* obligation is PAID when payment.amount >= amount_due and PARTIALLY_PAID
\* when 0 < payment.amount < amount_due.
C1_ApprovalStatusFollowsAmount ==
    (/\ last.op \in {"approve_payment", "payment_success"}
     /\ last.res = "ok"
     /\ last.p \in DOMAIN payments
     /\ payments[last.p].member_contribution # NoMC)
    => LET pay == payments[last.p]
           ob  == mcs[pay.member_contribution]
       IN /\ (pay.amount >= ob.amount_due => ob.is_paid = PAID)
          /\ ((0 < pay.amount /\ pay.amount < ob.amount_due) => ob.is_paid = PARTIALLY_PAID)

\* C2: a cash or bank checkout for a NOT_PAID obligation with amount equal
\* to its amount_due gives a Payment with is_approved = PENDING and the
\* obligation AWAITING_APPROVAL; the admin approval of a PENDING Payment
\* linked to an obligation gives is_approved = APPROVED and the obligation PAID.
C2_CheckoutThenApproval ==
    [][/\ (/\ last'.op = "checkout"
           /\ last'.res = "ok"
           /\ mcs[last'.mc].is_paid = NOT_PAID
           /\ payments'[last'.p].amount = mcs[last'.mc].amount_due)
          => /\ payments'[last'.p].is_approved = LP_PENDING
             /\ mcs'[last'.mc].is_paid = AWAITING_APPROVAL
       /\ (/\ last'.op = "approve_payment"
           /\ payments[last'.p].is_approved = LP_PENDING
           /\ last'.mc # NoMC)
          => /\ payments'[last'.p].is_approved = APPROVED
             /\ mcs'[last'.mc].is_paid = PAID]_vars

\* The members the specification makes eligible for a scope: dependents
\* (children, grandchildren) are left out, and an executive need not be a
\* family leader.
C3_Eligible(ct) ==
    LET base == {a \in DOMAIN accounts :
                    /\ accounts[a].is_active
                    /\ accounts[a].is_approved
                    /\ accounts[a].member_classification \notin {"CHILD", "GRANDCHILD"}}
    IN IF ct.scope = "clan" THEN base
       ELSE IF ct.scope = "family" THEN {a \in base : accounts[a].family = ct.family}
       ELSE IF ct.scope = "family_leaders" THEN {a \in base : accounts[a].is_family_leader}
       ELSE {a \in base : accounts[a].role \in Role \ {"MEMBER"}}

\* C3: when a ContributionType is created, the members that receive a
\* MemberContribution are exactly the eligible set of its scope, one
\* obligation each.
C3_FanOutReachesEligibleSet ==
    (last.op = "add_contribution" /\ last.res = "ok")
    => LET rows == {m \in DOMAIN mcs : mcs[m].contribution_type = last.ct}
       IN /\ {mcs[m].account : m \in rows} = C3_Eligible(cts[last.ct])
          /\ Cardinality(rows) = Cardinality(C3_Eligible(cts[last.ct]))

C4_HasObligations(c) == \E m \in DOMAIN mcs : mcs[m].contribution_type = c

\* C4: running the fan-out again for a ContributionType that already has a
\* MemberContribution creates no row and leaves the existing rows unchanged.
C4_SecondFanOutCreatesNothing ==
    [][(/\ last'.op \in {"create_member_contributions", "update_contribution"}
        /\ C4_HasObligations(last'.ct))
       => mcs' = mcs]_vars

\* C4 witness: the handler ran again for a ContributionType with obligations.
C4_SecondFanOutRan ==
    /\ last.op = "create_member_contributions"
    /\ last.res = "ok"
    /\ C4_HasObligations(last.ct)
    /\ today > 0

\* C5: an accepted cash/bank checkout or log_payment submission carries a
\* positive amount equal to the amount_due of the obligation it was
\* submitted for (any other amount is rejected and creates no Payment).
C5_AcceptedAmountIsOutstanding ==
    (last.op \in {"checkout", "log_payment"} /\ last.res = "ok")
    => /\ payments[last.p].amount > 0
       /\ payments[last.p].amount = mcs[last.mc].amount_due

\* The HMAC the callback's signature has to equal
ExpectedSignature(req) == hmac_hexdigest(secret, req.txn \o Lower(req.status))

\* C6: a callback whose signature is not the expected HMAC of
\* transactionId+status is answered with an error and changes no Payment and
\* no MemberContribution.
C6_BadSignatureIsRejected ==
    [][(/\ last'.op = "yoco_callback"
        /\ last'.req.sig # NoSig
        /\ last'.req.sig # ExpectedSignature(last'.req))
       => /\ last'.res \in {"400", "403", "404", "500"}
          /\ payments' = payments
          /\ mcs' = mcs]_vars

\* C7: a callback changes a Payment or a MemberContribution only if a secret
\* is configured and the request carried the expected signature.
C7_OnlyVerifiedCallbacksChangeState ==
    [][(/\ last'.op = "yoco_callback"
        /\ (payments' # payments \/ mcs' # mcs))
       => /\ secret # ""
          /\ last'.req.sig = ExpectedSignature(last'.req)]_vars

\* C8: after a verified callback with status success that matched a Payment,
\* the Payment is APPROVED and its obligation is PAID.
C8_VerifiedSuccessApproves ==
    (/\ last.op = "yoco_callback"
     /\ last.res = "success"
     /\ secret # ""
     /\ last.req.sig = ExpectedSignature(last.req))
    => /\ payments[last.p].is_approved = APPROVED
       /\ mcs[last.mc].is_paid = PAID

\* C9: of two approval calls on one PENDING Payment one applies the
\* transition; the call that comes to a Payment the other call has already
\* approved changes nothing.
C9_OneApprovalApplies ==
    [][(/\ last'.op = "approve_payment"
        /\ payments[last'.p].is_approved = APPROVED
        /\ payments[last'.p].payment_verified_by # NoUser)
       => (payments' = payments /\ mcs' = mcs)]_vars

\* C10: a success notification (payment_success or a success callback) for a
\* Payment that is already APPROVED changes no Payment and no
\* MemberContribution and queues no confirmation job.
C10_RepeatedSuccessIsNoOp ==
    [][(/\ \/ (last'.op = "payment_success" /\ last'.res = "ok")
           \/ (last'.op = "yoco_callback" /\ last'.res = "success")
        /\ payments[last'.p].is_approved = APPROVED)
       => /\ payments' = payments
          /\ mcs' = mcs
          /\ jobs' = jobs]_vars

\* C11: a yoco_checkout POST repeated for the same Payment and amount, with
\* no request in between, sends the idempotency key of (obligation, amount)
\* both times and leaves the Payment on the gateway session it already had.
C11_RepeatedCheckoutReusesSession ==
    [][(/\ last.op = "yoco_checkout" /\ last.res = "redirect"
        /\ last'.op = "yoco_checkout" /\ last'.res = "redirect"
        /\ last'.p = last.p
        /\ payments'[last'.p].amount = payments[last.p].amount)
       => /\ last'.key = generate_idempotency_key(last'.mc, payments'[last'.p].amount)
          /\ last'.key = last.key
          /\ payments'[last'.p].checkout_id = payments[last.p].checkout_id]_vars

C13_Failures == {"connection_error", "http_error", "no_id"}

\* C13: when the request to the gateway fails (connection error, HTTP error
\* status, no session id in the response) yoco_checkout answers with the
\* retryable error and changes no Payment and no MemberContribution.
C13_GatewayFailureChangesNothing ==
    [][(/\ last'.op = "yoco_checkout"
        /\ last'.p # 0
        /\ last'.gateway \in C13_Failures)
       => /\ last'.res = "retry"
          /\ payments' = payments
          /\ mcs' = mcs]_vars

\* C13 witness: each kind of failure was answered for a Payment that is
\* already on a gateway session.
C13_GatewayFailed ==
    /\ last.op = "yoco_checkout"
    /\ last.res = "retry"
    /\ last.gateway = "no_id"
    /\ payments[last.p].checkout_id # 0
    /\ mcs[last.mc].is_paid = MC_PENDING

\* C12: the amount_due of an existing MemberContribution never changes after
\* the row was created, whatever request is handled, an update of the parent
\* ContributionType's amount included.
C12_AmountDueIsFrozen ==
    [][\A m \in DOMAIN mcs : mcs'[m].amount_due = mcs[m].amount_due]_vars

\* C14: a notification job, however it interleaves with the request
\* handlers, leaves every obligation's status and every Payment's is_approved
\* as the handlers wrote them; a job that read its Payment before an approval
\* does not undo the approval when it saves.
C14_JobsLeaveStatusAlone ==
    [][(last'.op \in {"job", "job_read"} /\ jobs' # jobs)
          => /\ \A m \in DOMAIN mcs : mcs'[m].is_paid = mcs[m].is_paid
             /\ \A p \in DOMAIN payments :
                    payments'[p].is_approved = payments[p].is_approved]_vars

\* C15: PAID is terminal: once an obligation's status is PAID, no later
\* request, Payment save or job changes it.
C15_PaidIsTerminal ==
    [][\A m \in DOMAIN mcs : mcs[m].is_paid = PAID => mcs'[m].is_paid = PAID]_vars

\* C16: every rejection path leaves the obligation NOT PAID or CANCELLED:
\* payment_failed and a failed yoco_callback end with the obligation NOT PAID,
\* payment_cancelled ends with the Payment REJECTED and the obligation
\* CANCELLED.
C16_RejectionLeavesUnpaid ==
    [][/\ (last'.op = "payment_cancelled" /\ last'.res = "ok")
            => /\ payments'[last'.p].is_approved = REJECTED
               /\ mcs'[last'.mc].is_paid = CANCELLED
       /\ (last'.op = "payment_failed" /\ last'.res = "ok")
            => mcs'[last'.mc].is_paid = NOT_PAID
       /\ (last'.op = "yoco_callback" /\ last'.res = "failed")
            => mcs'[last'.mc].is_paid = NOT_PAID]_vars

\* C17: requests of an ordinary paying member alone, without a gateway
\* success verified by the callback, never bring that member's own Payment to
\* APPROVED or own obligation to PAID.
C17_MemberCannotSelfApprove ==
    /\ \A p \in DOMAIN payments :
          payments[p].account = Member => payments[p].is_approved # APPROVED
    /\ \A m \in DOMAIN mcs : mcs[m].account = Member => mcs[m].is_paid # PAID

\* C18: every obligation has at most one linked Payment that is not
\* REJECTED, and a checkout for an obligation that already has a PENDING or
\* NOT PAID Payment creates no Payment.
C18_OpenPayments(P, m) ==
    {x \in DOMAIN P : P[x].member_contribution = m /\ P[x].is_approved # REJECTED}

C18_OneOpenPaymentPerObligation ==
    [][/\ \A m \in DOMAIN mcs' : Cardinality(C18_OpenPayments(payments', m)) <= 1
       /\ (last'.op = "checkout" /\ DOMAIN payments' # DOMAIN payments)
            => ~\E x \in DOMAIN payments :
                   /\ payments[x].member_contribution = last'.mc
                   /\ payments[x].is_approved \in {LP_PENDING, LP_NOT_PAID}]_vars

\* A checkout was refused because the obligation has an open Payment, while
\* the ledger had room for another Payment.
C18_SecondCheckoutRefused ==
    /\ last.op = "checkout" /\ last.res = "exists"
    /\ NextId(payments) <= MaxLedgerPayments
    /\ \E m \in DOMAIN mcs : Cardinality(C18_OpenPayments(payments, m)) = 1

\* C19: a handler that writes both Payment.is_approved and the obligation's
\* status writes them in one atomic step: no request, job or crash observes or
\* leaves a Payment APPROVED with its obligation not PAID, or a Payment
\* REJECTED with its obligation PAID.
C19_StatusPairIsAtomic ==
    \A p \in DOMAIN payments :
        payments[p].member_contribution # NoMC =>
            LET st == mcs[payments[p].member_contribution].is_paid
            IN /\ payments[p].is_approved = APPROVED => st = PAID
               /\ payments[p].is_approved = REJECTED => st # PAID

C21_AddContributionAllOrNothing ==
    [][last'.op = "add_contribution"
          => \/ /\ last'.res = "ok"
                /\ last'.ct \in DOMAIN cts'
                /\ \A a \in members_qs(cts'[last'.ct]) :
                       \E m \in DOMAIN mcs' : /\ mcs'[m].account = a
                                              /\ mcs'[m].contribution_type = last'.ct
             \/ /\ last'.res # "ok"
                /\ cts' = cts
                /\ mcs' = mcs]_vars

\* C22: an exception of async_task while the fan-out queues its notification
\* jobs is logged and not raised: the handler returns normally and the
\* obligations it created stay stored.
C22_EnqueueFailureIsNotRaised ==
    [][(/\ last'.op \in {"add_contribution", "create_member_contributions"}
        /\ last'.res \in {"ok", "error"}
        /\ last'.fault = "async_task")
          => /\ last'.res = "ok"
             /\ \A a \in members_qs(cts'[last'.ct]) :
                    \E m \in DOMAIN mcs' : /\ mcs'[m].account = a
                                           /\ mcs'[m].contribution_type = last'.ct]_vars

\* C23: when two fan-outs for the same ContributionType run side by side, the
\* second sees the obligations of the first and does nothing: every member
\* ends with one obligation of that ContributionType and neither fan-out
\* fails.
C23_ConcurrentFanOutIsNoOp ==
    /\ (last.op = "create_member_contributions" /\ last.fault # "reference")
          => last.res # "error"
    /\ \A c \in DOMAIN cts, a \in DOMAIN accounts :
          Cardinality({m \in DOMAIN mcs : /\ mcs[m].account = a
                                          /\ mcs[m].contribution_type = c}) <= 1

\* C24: when the insert of the fan-out's obligations violates the uniqueness
\* of MemberContribution.reference, the fan-out takes fresh references and
\* still creates an obligation for every eligible member, with pairwise
\* distinct references.
C24_ReferenceCollisionIsRetried ==
    [][(/\ last'.op = "create_member_contributions"
        /\ \E k \in DOMAIN fanouts :
              /\ fanouts[k] # NotDispatched /\ fanouts'[k] = NotDispatched
              /\ \/ \E a, b \in fanouts[k].members :
                        a # b /\ fanouts[k].refs[a] = fanouts[k].refs[b]
                 \/ \E a \in fanouts[k].members, m \in DOMAIN mcs :
                        mcs[m].reference = fanouts[k].refs[a]
              /\ ~\E m \in DOMAIN mcs : mcs[m].contribution_type = fanouts[k].ct)
          => /\ last'.res = "ok"
             /\ \A a \in members_qs(cts'[last'.ct]) :
                    \E m \in DOMAIN mcs' : /\ mcs'[m].account = a
                                           /\ mcs'[m].contribution_type = last'.ct
             /\ \A m, n \in DOMAIN mcs' :
                    m # n => mcs'[m].reference # mcs'[n].reference]_vars

\* A checkout for obligation m, submitted by its owner with the obligation
\* selected and the amount due, is taken up: it restarts the open gateway
\* Payment of the obligation or creates a Payment linked to it.
C25_CheckoutTakenUp(m) ==
    /\ mcs[m].is_paid \in {NOT_PAID, MC_PENDING, AWAITING_APPROVAL}
    /\ cts[mcs[m].contribution_type].is_active
    /\ \/ \E x \in DOMAIN payments : /\ payments[x].member_contribution = m
                                     /\ payments[x].is_approved \in {LP_PENDING, LP_NOT_PAID}
                                     /\ payments[x].payment_method = "mobile"
       \/ /\ ~\E x \in DOMAIN payments : /\ payments[x].member_contribution = m
                                         /\ payments[x].is_approved \in {LP_PENDING, LP_NOT_PAID}
          /\ PaymentCheckoutFormValid(mcs[m].account, m, mcs[m].amount_due)

\* C25: after a gateway attempt on an obligation was cancelled or failed, the
\* obligation is payable again: its owner's checkout for it creates a payment
\* attempt or restarts the existing one.
C25_PayableAfterCancelOrFail ==
    (last.op \in {"payment_cancelled", "payment_failed"} /\ last.res = "ok")
        => C25_CheckoutTakenUp(last.mc)

\* C26: every Payment linked to a MemberContribution carries the reference of
\* that obligation, also when the obligation selected in the form is not the
\* one named in the URL.
C26_PaymentMirrorsReference ==
    \A p \in DOMAIN payments :
        payments[p].member_contribution # NoMC
            => payments[p].reference = mcs[payments[p].member_contribution].reference

\* C27: a Payment created by the cash/bank checkout or by log_payment has an
\* amount equal to the amount_due of the obligation it is linked to.
C27_AmountEqualsLinkedDue ==
    [][(/\ last'.op \in {"checkout", "log_payment"}
        /\ last'.p # 0
        /\ last'.p \notin DOMAIN payments
        /\ payments'[last'.p].payment_method \in {"cash", "bank"}
        /\ payments'[last'.p].member_contribution # NoMC)
          => payments'[last'.p].amount
                = mcs'[payments'[last'.p].member_contribution].amount_due]_vars

\* C28: when checkout or log_payment ends by reporting an error (an invalid
\* form, an unsupported payment method, an exception while saving), no
\* Payment was created and no obligation changed.
C28_ErrorMeansNoWrite ==
    [][(/\ last'.op \in {"checkout", "log_payment"}
        /\ last'.res \in {"invalid", "bad_method", "error"})
          => /\ payments' = payments
             /\ mcs' = mcs]_vars

\* C29: no delete removes a ContributionType or a MemberContribution that a
\* Payment references: such a delete is refused, and every Payment keeps its
\* link to its obligation.
C29_DeleteKeepsReferencedRows ==
    [][last'.op \in {"delete_contribution", "delete_member_contribution"}
          => \A p \in DOMAIN payments :
                payments[p].member_contribution # NoMC
                    => /\ payments'[p].member_contribution = payments[p].member_contribution
                       /\ payments[p].member_contribution \in DOMAIN mcs'
                       /\ mcs[payments[p].member_contribution].contribution_type
                              \in DOMAIN cts']_vars

\* C30: in every reachable state, an obligation whose status is PAID has a
\* linked Payment whose is_approved is APPROVED and whose amount is at least
\* the obligation's amount_due.
C30_PaidHasApprovedPayment ==
    \A m \in DOMAIN mcs :
        mcs[m].is_paid = PAID
            => \E p \in DOMAIN payments :
                  /\ payments[p].member_contribution = m
                  /\ payments[p].is_approved = APPROVED
                  /\ payments[p].amount >= mcs[m].amount_due

====
